---- MODULE Spec2Model ----
(***************************************************************************)
(* The training loop driver and the evaluator of the MNIST workshop        *)
(* notebook (src/workshop.ipynb): train_model, evaluate_model and           *)
(* find_misclassifications, together with the parts of keras they call     *)
(* (Model.fit with the EarlyStopping and History callbacks, Model.evaluate *)
(* with its compiled metrics, Model.predict).                              *)
(*                                                                         *)
(* Losses are fixed-point numbers in hundredths (0.85 is 85); accuracies   *)
(* returned by evaluate are exact fractions <<numerator, denominator>>.    *)
(***************************************************************************)
EXTENDS Integers, Sequences, FiniteSets, TLC

(***************************************************************************)
(* Program constants.                                                      *)
(***************************************************************************)
\* epochs=100 of model.fit
Epochs == 100
\* patience of the EarlyStopping callback (train_model's default)
patience == 3
\* units of the softmax output layer: one per digit class
NumClasses == 10
\* validation_split=0.1 of model.fit, in percent
ValidationPercent == 10
\* the largest pixel intensity of the raw images, the divisor of the normalization
MaxPixel == 255

(***************************************************************************)
(* Bounds of the model.                                                    *)
(***************************************************************************)
\* number of epochs of a "free" run whose validation loss is any FreeLosses value
MaxFree == 4
\* number of distinct validation-loss levels of a free run
FreeLevels == 3
\* number of abstract parameter vectors a model can hold
NumWeights == 3
\* largest test set
MaxTest == 3
\* batch_size=1024 of evaluate/predict, scaled to the bounded test set
EvalBatch == 2
\* largest limit n passed to find_misclassifications
MaxLimit == 3
\* batch_size=512 of fit, scaled to the bounded training set
FitBatch == 5
\* the training set of the runs that look at the mini-batches
TrainSize == 10
\* largest number of rows n passed to visualize_mnist
MaxRows == 4
\* images of each digit in the training set visualize_mnist reads
PerDigit == 5
\* largest label array of the small dataset providers load_data is run on
MaxRaw == 2

Models == {"simple_ffn", "hp_cnn"}
Weights == 0 .. (NumWeights - 1)
Classes == 0 .. (NumClasses - 1)

\* np.inf, the initial best value of EarlyStopping: above every loss
Inf == 1000000

Min(a, b) == IF a <= b THEN a ELSE b

VARIABLES
    mnist,          \* what tf.keras.datasets.mnist.load_data() returns: raw images
                    \* and integer labels of the training and the test split
    x_train,        \* training images
    y_train,        \* one-hot training labels
    weights,        \* weights[m]: the parameters of model m
    metrics,        \* metrics[m]: the compiled loss/accuracy accumulators of m
    x_test,         \* test images
    y_test,         \* one-hot test labels
    pc,             \* "idle", or "fit" while train_model is inside model.fit
    fit_model,      \* the model being fitted
    epoch,          \* epochs completed by the running (or last) fit
    stop_training,  \* model.stop_training of the fitted model
    es,             \* the EarlyStopping callback: wait, best, stopped_epoch
    history,        \* History.history: four per-epoch series
    plan,           \* the validation losses the run is going to measure
    eval_ret,       \* eval_ret[m]: what evaluate_model(m) returned last (and whether
                    \* that call repeated one), <<>> once m is trained again
    fm,             \* the last find_misclassifications call and the visualize_miss
                    \* calls it made, <<>> once its model is trained again
    split,          \* the training and the validation part (index sets into
                    \* x_train) of the running (or last) fit
    batches,        \* the mini-batches the last epoch made its updates on, in order
    figure,         \* the last visualize_mnist call and the subplots it drew
    error           \* the exception the last call raised, "none" if it completed

vars == <<mnist, x_train, y_train, weights, metrics, x_test, y_test, pc, fit_model,
          epoch, stop_training, es, history, plan, eval_ret, fm, split, batches,
          figure, error>>

trainVars == <<pc, fit_model, epoch, stop_training, es, history, plan>>
dataVars == <<mnist, x_train, y_train, x_test, y_test>>
evalVars == <<eval_ret, fm>>
fitDataVars == <<split, batches>>

(***************************************************************************)
(* Sequences of numbers.                                                   *)
(***************************************************************************)
SeqMin(s) == CHOOSE x \in {s[i] : i \in DOMAIN s} : \A i \in DOMAIN s : x <= s[i]

RECURSIVE SeqSum(_)
SeqSum(s) == IF s = <<>> THEN 0 ELSE s[1] + SeqSum(Tail(s))

(***************************************************************************)
(* The validation losses a training run measures.  They are the input of   *)
(* the early-stopping logic: a plan is a scripted prefix, then "free"      *)
(* epochs whose loss is any of FreeLosses, then a tail rule.               *)
(***************************************************************************)
\* the two sequences of the early-stopping tests, in hundredths
SeqA == <<90, 80, 85, 86, 87>>
SeqB == <<90, 80, 95, 70, 90, 95, 100>>
\* the loss of an untrained 10-class softmax, about ln 10
StartLoss == 230
FreeLosses == {80 + 5 * i : i \in 0 .. (FreeLevels - 1)}

FreePlan == [script |-> <<>>, free |-> MaxFree, tail |-> "flat"]
DownPlan == [script |-> <<StartLoss>>, free |-> 0, tail |-> "down"]
SawPlan == [script |-> <<StartLoss>>, free |-> 0, tail |-> "saw"]
Plans == {FreePlan, DownPlan, SawPlan,
          [script |-> SeqA, free |-> 0, tail |-> "flat"],
          [script |-> SeqB, free |-> 0, tail |-> "flat"]}
\* the plans of the runs that only serve to move a model's parameters
ShortPlans == {[script |-> SeqA, free |-> 0, tail |-> "flat"]}

\* the validation losses epoch Len(vl) + 1 can measure
NextValLoss(pl, vl) ==
    LET k == Len(vl) + 1 IN
    IF k <= Len(pl.script) THEN {pl.script[k]}
    ELSE IF k <= pl.free THEN FreeLosses
    ELSE IF pl.tail = "flat" THEN {vl[k - 1]}
    ELSE IF pl.tail = "down" THEN {vl[k - 1] - 1}
    ELSE IF k % 3 = 1 THEN {SeqMin(vl) - 1} ELSE {vl[k - 1] + 1}

(***************************************************************************)
(* keras.callbacks.EarlyStopping(monitor='val_loss', patience=patience),   *)
(* mode 'min', min_delta 0, no baseline, restore_best_weights False.       *)
(***************************************************************************)
\* IsImprovement taking a tie with the best value for an improvement
IsImprovementOrEqual(current, best) == current <= best

\* _is_improvement: np.less(monitor_value - min_delta, reference_value)
IsImprovement(current, best) == current < best

\* on_train_begin
ESBegin == [wait |-> 0, best |-> Inf, stopped_epoch |-> 0]

\* ESEpochEnd stopping only once the wait exceeds the patience
ESEpochEndLate(cb, e, current, pat) ==
    LET waited == cb.wait + 1 IN
    IF IsImprovement(current, cb.best)
    THEN [cb |-> [cb EXCEPT !.best = current, !.wait = 0], stop |-> FALSE]
    ELSE IF waited > pat /\ e > 0
         THEN [cb |-> [cb EXCEPT !.wait = waited, !.stopped_epoch = e], stop |-> TRUE]
         ELSE [cb |-> [cb EXCEPT !.wait = waited], stop |-> FALSE]

\* ESEpochEnd forgetting to reset the wait on an improvement
ESEpochEndNoReset(cb, e, current, pat) ==
    LET waited == cb.wait + 1 IN
    IF IsImprovement(current, cb.best)
    THEN [cb |-> [cb EXCEPT !.best = current, !.wait = waited], stop |-> FALSE]
    ELSE IF waited >= pat /\ e > 0
         THEN [cb |-> [cb EXCEPT !.wait = waited, !.stopped_epoch = e], stop |-> TRUE]
         ELSE [cb |-> [cb EXCEPT !.wait = waited], stop |-> FALSE]

\* ESEpochEnd measuring each epoch against the epoch before it: the reference
\* value becomes the current loss on every epoch
ESEpochEndLast(cb, e, current, pat) ==
    LET waited == cb.wait + 1 IN
    IF IsImprovement(current, cb.best)
    THEN [cb |-> [cb EXCEPT !.best = current, !.wait = 0], stop |-> FALSE]
    ELSE IF waited >= pat /\ e > 0
         THEN [cb |-> [cb EXCEPT !.best = current, !.wait = waited, !.stopped_epoch = e],
               stop |-> TRUE]
         ELSE [cb |-> [cb EXCEPT !.best = current, !.wait = waited], stop |-> FALSE]

\* on_epoch_end(e, logs) with e counted from 0: the callback afterwards, and
\* whether it set model.stop_training
ESEpochEnd(cb, e, current, pat) ==
    LET waited == cb.wait + 1 IN
    IF IsImprovement(current, cb.best)
    THEN [cb |-> [cb EXCEPT !.best = current, !.wait = 0], stop |-> FALSE]
    ELSE IF waited >= pat /\ e > 0
         THEN [cb |-> [cb EXCEPT !.wait = waited, !.stopped_epoch = e], stop |-> TRUE]
         ELSE [cb |-> [cb EXCEPT !.wait = waited], stop |-> FALSE]

(***************************************************************************)
(* keras.callbacks.History                                                 *)
(***************************************************************************)
\* on_train_begin
EmptyHistory == [loss |-> <<>>, accuracy |-> <<>>, val_loss |-> <<>>, val_accuracy |-> <<>>]

\* HistoryAppend keeping only the latest epoch's values
HistoryAppendLatest(h, logs) ==
    [loss |-> <<logs.loss>>, accuracy |-> <<logs.accuracy>>,
     val_loss |-> <<logs.val_loss>>, val_accuracy |-> <<logs.val_accuracy>>]

\* on_epoch_end: each metric of logs is appended to its series
HistoryAppend(h, logs) ==
    [loss |-> Append(h.loss, logs.loss),
     accuracy |-> Append(h.accuracy, logs.accuracy),
     val_loss |-> Append(h.val_loss, logs.val_loss),
     val_accuracy |-> Append(h.val_accuracy, logs.val_accuracy)]

(***************************************************************************)
(* One epoch of model.fit: the optimizer's updates and the epoch's logs.   *)
(***************************************************************************)
\* the parameters after one more epoch of updates
TrainStep(w) == (w + 1) % NumWeights

\* LoopContinues running one pass too many
LoopContinuesOffByOne(e, stop) == e <= Epochs /\ ~stop

\* LoopContinues without the break on stop_training
LoopContinuesNoBreak(e, stop) == e < Epochs

\* "for epoch in range(epochs)" with "if self.stop_training: break" at the end
\* of each pass: whether another epoch is run after e completed ones
LoopContinues(e, stop) == e < Epochs /\ ~stop

\* the logs of an epoch that measured validation loss v (accuracies in percent)
EpochLogs(v) ==
    [loss |-> v - 5, accuracy |-> 100 - (v \div 10),
     val_loss |-> v, val_accuracy |-> 99 - (v \div 10)]

\* the compiled metrics after the validation pass that closes an epoch
ValMetrics(logs) ==
    [loss_total |-> logs.val_loss, acc_total |-> logs.val_accuracy, count |-> 100]

(***************************************************************************)
(* The test data and the forward pass.  An image is abstracted by the      *)
(* evidence it gives for each class (two units in all, so that both clear  *)
(* images and ties exist); a model's parameters w turn the evidence into   *)
(* the prediction distribution, in halves.                                 *)
(***************************************************************************)
\* the digits the bounded test sets are drawn from
TestDigits == {0, 9}

\* an image with one unit of evidence for digit a and one for digit b
Img(a, b) == [c \in Classes |-> (IF c = a THEN 1 ELSE 0) + (IF c = b THEN 1 ELSE 0)]
\* the images of the bounded test sets: a clear zero, and a zero that could be a nine
Images == {Img(0, 0), Img(0, 9)}

\* tf.keras.utils.to_categorical of a digit of MNIST
OneHot(d) == [c \in Classes |-> IF c = d THEN 1 ELSE 0]

\* model(x) in inference mode: a function of the parameters and the image alone
Forward(w, img) == [c \in Classes |-> img[(c + w) % NumClasses]]

\* model.predict(x_test, batch_size=1024): one distribution per test image
Predict(w, xs) == [i \in 1 .. Len(xs) |-> Forward(w, xs[i])]

\* numpy argmax along axis 1: the first index holding the maximum
Argmax(v) ==
    CHOOSE c \in DOMAIN v :
        /\ \A d \in DOMAIN v : v[d] <= v[c]
        /\ \A d \in DOMAIN v : d < c => v[d] < v[c]

\* -log of the probability p (in halves) clipped to [1e-7, 1 - 1e-7], in hundredths
NegLog(p) == IF p >= 2 THEN 0 ELSE IF p = 1 THEN 69 ELSE 1612

\* categorical_crossentropy of one example
CrossEntropy(y, dist) == NegLog(dist[Argmax(y)])

(***************************************************************************)
(* The dataset provider and load_data.  A raw image holds its evidence in  *)
(* pixel intensities (MaxPixel per unit), a raw label is the digit.        *)
(***************************************************************************)
SeqMax(s) == CHOOSE x \in {s[i] : i \in DOMAIN s} : \A i \in DOMAIN s : s[i] <= x

\* the raw image that normalizes to img
RawImg(img) == [c \in Classes |-> MaxPixel * img[c]]

\* the digits a provider's label arrays are drawn from
RawDigits == {0, 8, 9}
\* the shape of one image a provider returns: MNIST's, with and without a
\* channel axis, and a larger one
ImageShapes == {<<28, 28>>, <<28, 28, 1>>, <<32, 32>>}

\* a provider's return value whose images are clear images of their labels
Provider(sh, ytr, yte) ==
    [shape |-> sh,
     x_train |-> [i \in 1 .. Len(ytr) |-> RawImg(Img(ytr[i], ytr[i]))],
     y_train |-> ytr,
     x_test |-> [i \in 1 .. Len(yte) |-> RawImg(Img(yte[i], yte[i]))],
     y_test |-> yte]

\* x / 255.0, elementwise: the shape stays the provider's
Normalize(xs) == [i \in 1 .. Len(xs) |-> [c \in Classes |-> xs[i][c] \div MaxPixel]]

\* tf.keras.utils.to_categorical(y), num_classes not given: the width is the
\* largest label of y plus one
ToCategorical(y) ==
    LET num_classes == SeqMax(y) + 1 IN
    [i \in 1 .. Len(y) |-> [c \in 0 .. (num_classes - 1) |-> IF c = y[i] THEN 1 ELSE 0]]

(***************************************************************************)
(* What model.fit does with x_train, y_train before the first epoch: the   *)
(* validation split, and (in the first training step) the check of the     *)
(* data against the model's declared input and its outputs.                *)
(***************************************************************************)
\* input_shape of the model's first layer
InputShape == [simple_ffn |-> <<28, 28>>, hp_cnn |-> <<28, 28, 1>>]

\* keras conforms a batch to the declared input when the shapes are equal or
\* differ by a last axis of size 1 (which it adds or squeezes)
Conforms(shape, declared) ==
    \/ shape = declared
    \/ /\ Len(declared) = Len(shape) + 1
       /\ declared[Len(declared)] = 1
       /\ SubSeq(declared, 1, Len(shape)) = shape
    \/ /\ Len(shape) = Len(declared) + 1
       /\ shape[Len(shape)] = 1
       /\ SubSeq(shape, 1, Len(declared)) = declared

\* the width of the rows of a label array
LabelWidth(ys) == Cardinality(DOMAIN ys[1])

\* ShapesCompatible looking at the images alone
ShapesCompatibleImages(m, sh, ys) == Conforms(sh, InputShape[m])

\* the images fit model m's input and the labels its NumClasses outputs
\* (categorical_crossentropy needs y_true and y_pred of one shape)
ShapesCompatible(m, sh, ys) ==
    Conforms(sh, InputShape[m]) /\ LabelWidth(ys) = NumClasses

\* split_at of train_validation_split: floor(n * (1 - validation_split))
SplitAt(n) == (n * (100 - ValidationPercent)) \div 100

\* the split is refused when one of the parts would be empty
SplitFails(n) == SplitAt(n) = 0 \/ SplitAt(n) = n

\* TrainIdx keeping every example for training
TrainIdxAll(n) == 1 .. n

\* the training part: the first split_at examples
TrainIdx(n) == 1 .. SplitAt(n)

\* the validation part: the last examples, taken before any shuffling
ValIdx(n) == (SplitAt(n) + 1) .. n

\* fit(x_train, y_train, validation_split) on model m gets to its first epoch
CanFit(m) ==
    /\ ~SplitFails(Len(x_train))
    /\ ShapesCompatible(m, mnist.shape, y_train)

\* shuffle=True, batch_size: the ways an epoch can cut the shuffled examples
\* of pool into consecutive mini-batches of bs examples, the last one smaller
RECURSIVE Batchings(_, _)
Batchings(pool, bs) ==
    IF pool = {} THEN {<<>>}
    ELSE LET k == Min(bs, Cardinality(pool)) IN
         UNION {{<<b>> \o rest : rest \in Batchings(pool \ b, bs)} :
                   b \in {c \in SUBSET pool : Cardinality(c) = k}}

(***************************************************************************)
(* Model.evaluate(x_test, y_test, batch_size): the compiled metrics are    *)
(* reset, then updated batch by batch, and their results returned.         *)
(***************************************************************************)
\* freshly compiled metrics
ZeroMetrics == [loss_total |-> 0, acc_total |-> 0, count |-> 0]

\* ResetMetrics leaving the accumulators as they are
ResetMetricsKeep(mt) == mt

\* Model.reset_metrics, the first thing evaluate does: every accumulator of
\* mt is cleared
ResetMetrics(mt) == [loss_total |-> 0, acc_total |-> 0, count |-> 0]

\* the index ranges of the batches of n examples
NumBatches(n, bs) == (n + bs - 1) \div bs
BatchLo(k, bs) == (k - 1) * bs + 1
BatchHi(k, n, bs) == Min(k * bs, n)

\* MetricsUpdate giving every batch the weight of a full one: the mean of the
\* batches' means
MetricsUpdateUnweighted(mt, loss_sum, matches, size) ==
    [loss_total |-> mt.loss_total + ((loss_sum * EvalBatch) \div size),
     acc_total |-> mt.acc_total + ((matches * EvalBatch) \div size),
     count |-> mt.count + EvalBatch]

\* Mean.update_state(values, sample_weight): the loss tracker gets the batch's
\* mean loss weighted by the batch size, the accuracy metric one 0/1 match
\* per example
MetricsUpdate(mt, loss_sum, matches, size) ==
    [loss_total |-> mt.loss_total + loss_sum,
     acc_total |-> mt.acc_total + matches,
     count |-> mt.count + size]

\* test_step on batch lo..hi
TestStep(mt, w, xs, ys, lo, hi) ==
    LET preds == [i \in lo .. hi |-> Forward(w, xs[i])]
        loss_sum == SeqSum([j \in 1 .. (hi - lo + 1) |->
                                CrossEntropy(ys[lo + j - 1], preds[lo + j - 1])])
        matches == Cardinality({i \in lo .. hi : Argmax(preds[i]) = Argmax(ys[i])})
    IN MetricsUpdate(mt, loss_sum, matches, hi - lo + 1)

RECURSIVE TestLoop(_, _, _, _, _, _)
TestLoop(mt, w, xs, ys, k, bs) ==
    IF k > NumBatches(Len(xs), bs) THEN mt
    ELSE TestLoop(TestStep(mt, w, xs, ys, BatchLo(k, bs), BatchHi(k, Len(xs), bs)),
                  w, xs, ys, k + 1, bs)

\* Mean.result() of both metrics: total / count, as fractions
MetricsResult(mt) ==
    [loss |-> <<mt.loss_total, mt.count>>, accuracy |-> <<mt.acc_total, mt.count>>]

(***************************************************************************)
(* find_misclassifications: the loop over misclassified_indices            *)
(***************************************************************************)
\* Where selecting the examples classified correctly
RECURSIVE WhereEqual(_, _, _)
WhereEqual(y_pred, y_true, i) ==
    IF i > Len(y_pred) THEN <<>>
    ELSE (IF y_pred[i] = y_true[i] THEN <<i>> ELSE <<>>)
         \o WhereEqual(y_pred, y_true, i + 1)

\* np.where(y_pred != y_true)[0]: the indices, ascending (1-based here)
RECURSIVE Where(_, _, _)
Where(y_pred, y_true, i) ==
    IF i > Len(y_pred) THEN <<>>
    ELSE (IF y_pred[i] # y_true[i] THEN <<i>> ELSE <<>>) \o Where(y_pred, y_true, i + 1)

\* ShowLoop with "i <= n" for "i < n"
RECURSIVE ShowLoopOffByOne(_, _, _, _, _, _)
ShowLoopOffByOne(mis, i, n, xs, y_true, predictions) ==
    IF i >= Len(mis) THEN <<>>
    ELSE IF i <= n
         THEN <<[idx |-> mis[i + 1], x |-> xs[mis[i + 1]], y |-> y_true[mis[i + 1]],
                 y_pred |-> predictions[mis[i + 1]]]>>
              \o ShowLoopOffByOne(mis, i + 1, n, xs, y_true, predictions)
         ELSE <<>>

\* ShowLoop breaking on "i == n" only
RECURSIVE ShowLoopUntil(_, _, _, _, _, _)
ShowLoopUntil(mis, i, n, xs, y_true, predictions) ==
    IF i >= Len(mis) THEN <<>>
    ELSE IF i # n
         THEN <<[idx |-> mis[i + 1], x |-> xs[mis[i + 1]], y |-> y_true[mis[i + 1]],
                 y_pred |-> predictions[mis[i + 1]]]>>
              \o ShowLoopUntil(mis, i + 1, n, xs, y_true, predictions)
         ELSE <<>>

\* for i, idx in enumerate(misclassified_indices): visualize_miss(...) while
\* i < n, break otherwise; i counts from 0.  The calls made, in order.
RECURSIVE ShowLoop(_, _, _, _, _, _)
ShowLoop(mis, i, n, xs, y_true, predictions) ==
    IF i >= Len(mis) THEN <<>>
    ELSE IF i < n
         THEN <<[idx |-> mis[i + 1], x |-> xs[mis[i + 1]], y |-> y_true[mis[i + 1]],
                 y_pred |-> predictions[mis[i + 1]]]>>
              \o ShowLoop(mis, i + 1, n, xs, y_true, predictions)
         ELSE <<>>

(***************************************************************************)
(* The notebook's state once load_data has run and the models are compiled *)
(***************************************************************************)
NoPlan == [script |-> <<>>, free |-> 0, tail |-> "flat"]
Labels == {OneHot(d) : d \in TestDigits}
Limits == -1 .. MaxLimit

\* a provider whose training split is <<0, 9>> and whose test split has
\* images xs and labels ys
SmallProvider(xs, ys) ==
    [Provider(<<28, 28>>, <<0, 9>>, ys) EXCEPT
        !.x_test = [i \in 1 .. Len(xs) |-> RawImg(xs[i])]]

\* what no call has set yet
NoSplit == [train |-> {}, val |-> {}]
NoFigure == <<>>

\* the models compiled, no call made yet
Fresh ==
    /\ weights = [m \in Models |-> 0]
    /\ metrics = [m \in Models |-> ZeroMetrics]
    /\ fit_model = "none"
    /\ epoch = 0
    /\ stop_training = FALSE
    /\ es = ESBegin
    /\ history = EmptyHistory
    /\ plan = NoPlan
    /\ eval_ret = [m \in Models |-> <<>>]
    /\ fm = <<>>
    /\ split = NoSplit
    /\ batches = <<>>
    /\ figure = NoFigure
    /\ error = "none"

\* load_data has run: both splits hold every digit class up to 9, as MNIST's do
Loaded ==
    /\ x_train = Normalize(mnist.x_train)
    /\ y_train = ToCategorical(mnist.y_train)
    /\ x_test = Normalize(mnist.x_test)
    /\ y_test = ToCategorical(mnist.y_test)
    /\ pc = "idle"

Init ==
    /\ \E n \in 1 .. MaxTest :
          \E xs \in [1 .. n -> Images], ys \in [1 .. n -> TestDigits] :
             /\ \E i \in 1 .. n : ys[i] = NumClasses - 1
             /\ mnist = SmallProvider(xs, ys)
    /\ Loaded
    /\ Fresh

(***************************************************************************)
(* load_data(), and the cell that binds its result to the globals          *)
(***************************************************************************)
LoadData ==
    /\ pc = "start"
    /\ x_train' = Normalize(mnist.x_train)
    /\ x_test' = Normalize(mnist.x_test)
    /\ y_train' = ToCategorical(mnist.y_train)
    /\ y_test' = ToCategorical(mnist.y_test)
    /\ pc' = "idle"
    /\ error' = "none"
    /\ UNCHANGED <<mnist, weights, metrics, fit_model, epoch, stop_training, es,
                   history, plan, evalVars, fitDataVars, figure>>

(***************************************************************************)
(* train_model(model): model.fit(..., epochs=100, callbacks=[early_stopping]) *)
(***************************************************************************)
\* TrainBegin with an EarlyStopping callback that outlives the call and is
\* not reset
TrainBeginStale(m, pl) ==
    /\ pc = "idle"
    /\ CanFit(m)
    /\ split' = [train |-> TrainIdx(Len(x_train)), val |-> ValIdx(Len(x_train))]
    /\ batches' = <<>>
    /\ error' = "none"
    /\ pc' = "fit"
    /\ fit_model' = m
    /\ plan' = pl
    /\ epoch' = 0
    /\ stop_training' = FALSE
    /\ es' = es
    /\ history' = EmptyHistory
    /\ eval_ret' = [eval_ret EXCEPT ![m] = <<>>]
    /\ fm' = IF fm # <<>> /\ fm[1].model = m THEN <<>> ELSE fm
    /\ UNCHANGED <<weights, metrics, dataVars, figure>>

\* the call, up to the callbacks' on_train_begin
TrainBegin(m, pl) ==
    /\ pc = "idle"
    /\ CanFit(m)
    /\ split' = [train |-> TrainIdx(Len(x_train)), val |-> ValIdx(Len(x_train))]
    /\ batches' = <<>>
    /\ error' = "none"
    /\ pc' = "fit"
    /\ fit_model' = m
    /\ plan' = pl
    /\ epoch' = 0
    /\ stop_training' = FALSE
    /\ es' = ESBegin
    /\ history' = EmptyHistory
    /\ eval_ret' = [eval_ret EXCEPT ![m] = <<>>]
    /\ fm' = IF fm # <<>> /\ fm[1].model = m THEN <<>> ELSE fm
    /\ UNCHANGED <<weights, metrics, dataVars, figure>>

\* the call on data fit cannot use: the ValueError of the validation split,
\* or of the first training step's trace, leaves fit and train_model before
\* any parameter update; the callbacks made for the call are dropped with it
TrainFail(m) ==
    /\ pc = "idle"
    /\ ~CanFit(m)
    /\ error' = "ValueError"
    /\ UNCHANGED <<weights, metrics, dataVars, trainVars, evalVars, fitDataVars,
                   figure>>

\* one pass of "for epoch in range(epochs)": the training steps, the
\* validation pass, the callbacks' on_epoch_end
Epoch ==
    /\ pc = "fit"
    /\ LoopContinues(epoch, stop_training)
    /\ \E v \in NextValLoss(plan, history.val_loss) :
          LET logs == EpochLogs(v)
              r == ESEpochEnd(es, epoch, logs.val_loss, patience)
          IN /\ weights' = [weights EXCEPT ![fit_model] = TrainStep(@)]
             /\ metrics' = [metrics EXCEPT ![fit_model] = ValMetrics(logs)]
             /\ history' = HistoryAppend(history, logs)
             /\ es' = r.cb
             /\ stop_training' = r.stop
             /\ epoch' = epoch + 1
    /\ \E bs \in Batchings(split.train, FitBatch) : batches' = bs
    /\ UNCHANGED <<dataVars, pc, fit_model, plan, evalVars, split, figure, error>>

\* the loop ends (range exhausted, or break on stop_training) and fit returns
\* its History object, which train_model returns
TrainReturn ==
    /\ pc = "fit"
    /\ ~LoopContinues(epoch, stop_training)
    /\ pc' = "idle"
    /\ UNCHANGED <<weights, metrics, dataVars, fit_model, epoch, stop_training,
                   es, history, plan, evalVars, fitDataVars, figure, error>>

(***************************************************************************)
(* evaluate_model(model)                                                   *)
(***************************************************************************)
\* EvaluateModel running its batches as training steps
EvaluateModelTraining(m) ==
    /\ pc = "idle"
    /\ LET mt == TestLoop(ResetMetrics(metrics[m]), weights[m], x_test, y_test, 1,
                           EvalBatch)
           r == MetricsResult(mt)
       IN /\ metrics' = [metrics EXCEPT ![m] = mt]
          /\ eval_ret' = [eval_ret EXCEPT ![m] =
                              <<[loss |-> r.loss, accuracy |-> r.accuracy,
                                 again |-> eval_ret[m] # <<>>]>>]
    /\ weights' = [weights EXCEPT ![m] = TrainStep(@)]
    /\ error' = "none"
    /\ UNCHANGED <<dataVars, trainVars, fm, fitDataVars, figure>>

EvaluateModel(m) ==
    /\ pc = "idle"
    /\ LET mt == TestLoop(ResetMetrics(metrics[m]), weights[m], x_test, y_test, 1,
                           EvalBatch)
           r == MetricsResult(mt)
       IN /\ metrics' = [metrics EXCEPT ![m] = mt]
          /\ eval_ret' = [eval_ret EXCEPT ![m] =
                              <<[loss |-> r.loss, accuracy |-> r.accuracy,
                                 again |-> eval_ret[m] # <<>>]>>]
    /\ error' = "none"
    /\ UNCHANGED <<weights, dataVars, trainVars, fm, fitDataVars, figure>>

(***************************************************************************)
(* find_misclassifications(model, n)                                       *)
(***************************************************************************)
FindMisclassifications(m, n) ==
    /\ pc = "idle"
    /\ LET predictions == Predict(weights[m], x_test)
           y_true == [i \in 1 .. Len(y_test) |-> Argmax(y_test[i])]
           y_pred == [i \in 1 .. Len(x_test) |-> Argmax(predictions[i])]
           misclassified_indices == Where(y_pred, y_true, 1)
       IN fm' = <<[model |-> m, n |-> n,
                   shown |-> ShowLoop(misclassified_indices, 0, n, x_test, y_true,
                                      predictions)]>>
    /\ error' = "none"
    /\ UNCHANGED <<weights, metrics, dataVars, trainVars, eval_ret, fitDataVars,
                   figure>>

(***************************************************************************)
(* visualize_mnist(n), as src/workshop.ipynb and as src/unnamed/part_000   *)
(* define it: the two differ in the range of the inner loop.               *)
(***************************************************************************)
\* the mask y == d: the positions in y of the examples labelled d, ascending
Masked(y, d) ==
    LET at == {k \in 1 .. Len(y) : y[k] = d} IN
    [r \in 1 .. Cardinality(at) |->
        CHOOSE k \in at : Cardinality({j \in at : j < k}) = r - 1]

\* "for i in range(10): for j in range(inner):" pass number k, from 0, is
\* plt.subplot(rows, 10, i+10*j+1) and plt.imshow(x[idx][j]) for these i, j
PassDigit(k, inner) == k \div inner
PassRow(k, inner) == k % inner
PassIndex(k, inner) == PassDigit(k, inner) + 10 * PassRow(k, inner) + 1

\* plt.subplot refuses an index outside 1 .. rows*10
SubplotFails(k, rows, inner) ==
    PassIndex(k, inner) < 1 \/ PassIndex(k, inner) > rows * 10

\* x[idx][j] refuses a j beyond the images of digit i
ImageFails(k, inner, y) == PassRow(k, inner) + 1 > Len(Masked(y, PassDigit(k, inner)))

\* the two loops: the subplots drawn, in order, up to the first pass that
\* raises, and the exception that ended the loops
DrawLoop(rows, inner, y) ==
    LET total == 10 * inner
        failing == {k \in 0 .. (total - 1) :
                       SubplotFails(k, rows, inner) \/ ImageFails(k, inner, y)}
        stop == IF failing = {} THEN total
                ELSE CHOOSE k \in failing : \A j \in failing : k <= j
        \* a pass whose subplot is made and whose image is missing leaves
        \* the empty subplot
        drawn == IF stop < total /\ ~SubplotFails(stop, rows, inner)
                 THEN stop + 1 ELSE stop
    IN [plots |-> [p \in 1 .. drawn |->
                    [index |-> PassIndex(p - 1, inner),
                     digit |-> PassDigit(p - 1, inner),
                     image |-> IF p - 1 = stop THEN 0
                               ELSE Masked(y, PassDigit(p - 1, inner))
                                        [PassRow(p - 1, inner) + 1]]],
        error |-> IF stop = total THEN "none"
                  ELSE IF SubplotFails(stop, rows, inner) THEN "ValueError"
                  ELSE "IndexError"]

\* the call with the inner loop over range(inner): the assertion, the
\* provider's training split, the figure of n rows and 10 columns, the loops
VisualizeCall(file, n, inner) ==
    /\ LET r == IF n > 0 THEN DrawLoop(n, inner, mnist.y_train)
                 ELSE [plots |-> <<>>, error |-> "AssertionError"]
       IN /\ figure' = <<[file |-> file, n |-> n, plots |-> r.plots,
                          error |-> r.error]>>
          /\ error' = r.error
    /\ UNCHANGED <<dataVars, weights, metrics, trainVars, evalVars, fitDataVars>>

\* src/workshop.ipynb: for j in range(n)
VisualizeMnist(n) ==
    /\ pc \in {"start", "idle"}
    /\ VisualizeCall("workshop.ipynb", n, n)

\* src/unnamed/part_000: for j in range(3)
VisualizeMnistPart000(n) ==
    /\ pc \in {"start", "idle"}
    /\ VisualizeCall("part_000", n, 3)

(***************************************************************************)
(* Specifications                                                          *)
(***************************************************************************)
\* the model the notebook's last cells evaluate and search
Evaluated == {"hp_cnn"}

Next ==
    \/ \E m \in Evaluated, pl \in ShortPlans : TrainBegin(m, pl)
    \/ Epoch
    \/ TrainReturn
    \/ \E m \in Evaluated : EvaluateModel(m)
    \/ \E m \in Evaluated, n \in Limits : FindMisclassifications(m, n)

Spec == Init /\ [][Next]_vars

\* the training runs on every plan, over one fixed test set
InitTrain ==
    /\ Init
    /\ x_test = <<Img(0, 9)>>
    /\ y_test = <<OneHot(9)>>

NextTrain ==
    \/ \E m \in Models, pl \in Plans : TrainBegin(m, pl)
    \/ Epoch
    \/ TrainReturn

SpecTrain == InitTrain /\ [][NextTrain]_vars

\* a training run cannot stall: the loop is sequential code that runs on
SpecTrainFair == SpecTrain /\ WF_vars(Epoch) /\ WF_vars(TrainReturn)

\* the label arrays of at most n labels a provider can return
RawLabelSeqs(n) == UNION {[1 .. k -> RawDigits] : k \in 1 .. n}

\* the notebook from its first cell on, over every small provider
InitLoad ==
    /\ \E sh \in ImageShapes, ytr \in RawLabelSeqs(MaxRaw), yte \in RawLabelSeqs(MaxRaw) :
          mnist = Provider(sh, ytr, yte)
    /\ x_train = <<>>
    /\ y_train = <<>>
    /\ x_test = <<>>
    /\ y_test = <<>>
    /\ pc = "start"
    /\ Fresh

NextLoad ==
    \/ LoadData
    \/ \E m \in Models, pl \in ShortPlans : TrainBegin(m, pl)
    \/ \E m \in Models : TrainFail(m)
    \/ Epoch
    \/ TrainReturn

SpecLoad == InitLoad /\ [][NextLoad]_vars

\* n labels that run through the digit classes
CycleLabels(n) == [k \in 1 .. n |-> (7 * k) % NumClasses]

\* the training runs over a training set of TrainSize examples
InitSplit ==
    /\ mnist = Provider(<<28, 28>>, CycleLabels(TrainSize), <<9>>)
    /\ Loaded
    /\ Fresh

NextSplit ==
    \/ \E m \in Evaluated, pl \in ShortPlans : TrainBegin(m, pl)
    \/ Epoch
    \/ TrainReturn

SpecSplit == InitSplit /\ [][NextSplit]_vars

\* n labels that run through the digit classes in steps of a, from o on
Arrangement(a, o, n) == [k \in 1 .. n |-> (a * k + o) % NumClasses]
Rows == -1 .. MaxRows

\* the notebook from its first cell on, over training splits that hold
\* PerDigit images of every digit
InitViz ==
    /\ \E a \in {1, 3, 7, 9}, o \in 0 .. 2 :
          mnist = Provider(<<28, 28>>, Arrangement(a, o, NumClasses * PerDigit), <<9>>)
    /\ x_train = <<>>
    /\ y_train = <<>>
    /\ x_test = <<>>
    /\ y_test = <<>>
    /\ pc = "start"
    /\ Fresh

NextViz ==
    \/ LoadData
    \/ \E n \in Rows : VisualizeMnist(n)
    \/ \E n \in Rows : VisualizeMnistPart000(n)

SpecViz == InitViz /\ [][NextViz]_vars

(***************************************************************************)
(* Early stopping, stated on the validation losses of the history alone    *)
(***************************************************************************)
\* epoch k of the series vl reaches a new minimum
NewMin(vl, k) == \A j \in 1 .. (k - 1) : vl[k] < vl[j]

\* the last of the epochs 1..k that reached a new minimum (epoch 1 always does)
LastNewMin(vl, k) ==
    CHOOSE j \in 1 .. k : NewMin(vl, j) /\ \A i \in (j + 1) .. k : ~NewMin(vl, i)

\* the number of consecutive epochs without a new minimum that epoch k completes
Strikes(vl, k) == IF k = 0 THEN 0 ELSE k - LastNewMin(vl, k)

\* epoch k completes 3 consecutive epochs without a new minimum
ThreeStrikes(vl, k) ==
    k >= 3 /\ ~NewMin(vl, k) /\ ~NewMin(vl, k - 1) /\ ~NewMin(vl, k - 2)

\* a train_model call has returned
Returned == pc = "idle" /\ fit_model # "none"

C3_MoreThanPatience ==
    stop_training => Strikes(history.val_loss, Len(history.val_loss)) > 3

\* C4: a training run always ends, after at most 100 epochs, and after
\* exactly 100 when early stopping never triggers.
C4_Terminates ==
    /\ [](/\ epoch <= 100
          /\ Returned /\ ~stop_training => epoch = 100 /\ Len(history.val_loss) = 100)
    /\ (pc = "fit") ~> (pc = "idle")

C4_Witness ==
    /\ Returned /\ ~stop_training /\ epoch = 100
    /\ \A k \in 1 .. 100 : NewMin(history.val_loss, k)

\* after k epochs the four series hold k values each, the k-th those logged
\* by epoch k, and a stopped run holds the stopping epoch's record as its last
C5_Records ==
    LET n == Len(history.val_loss) IN
    /\ n = epoch
    /\ Len(history.loss) = n /\ Len(history.accuracy) = n /\ Len(history.val_accuracy) = n
    /\ \A k \in 1 .. n :
          /\ history.loss[k] = EpochLogs(history.val_loss[k]).loss
          /\ history.accuracy[k] = EpochLogs(history.val_loss[k]).accuracy
          /\ history.val_accuracy[k] = EpochLogs(history.val_loss[k]).val_accuracy
          /\ k <= Len(plan.script) => history.val_loss[k] = plan.script[k]
    /\ stop_training => n = es.stopped_epoch + 1

IsPrefix(s, t) == Len(s) <= Len(t) /\ \A k \in 1 .. Len(s) : t[k] = s[k]

\* a step of a running fit keeps every record appended so far and adds at
\* most one; the return leaves the history as it is
C5_Step ==
    pc = "fit" =>
        /\ IsPrefix(history.loss, history'.loss)
        /\ IsPrefix(history.accuracy, history'.accuracy)
        /\ IsPrefix(history.val_loss, history'.val_loss)
        /\ IsPrefix(history.val_accuracy, history'.val_accuracy)
        /\ Len(history'.val_loss) <= Len(history.val_loss) + 1
        /\ pc' = "idle" => history' = history

\* C5: the history holds one record per completed epoch, in epoch order, the
\* four series of equal length; a record once appended is never changed or
\* removed; what is returned on early stopping is the records up to and
\* including the stopping epoch.
C5_AppendOnly == []C5_Records /\ [][C5_Step]_vars

C5_Witness ==
    /\ Returned /\ stop_training /\ plan.script = SeqB
    /\ Len(history.loss) = 7 /\ es.stopped_epoch = 6

(***************************************************************************)
(* The evaluator, stated on the test set and the model's predictions       *)
(***************************************************************************)
\* test example i is classified correctly by parameters w
Correct(w, i) == Argmax(Forward(w, x_test[i])) = Argmax(y_test[i])

Misclassified(w) == {i \in 1 .. Len(x_test) : ~Correct(w, i)}

\* two fractions <<numerator, denominator>> of the same value
SameFraction(p, q) == p[1] * q[2] = q[1] * p[2]

\* C6: no record find_misclassifications shows has its predicted class (the
\* argmax of its distribution) equal to its true class (the argmax of its
\* one-hot label).
C6_OnlyMisclassified ==
    fm # <<>> =>
        \A k \in 1 .. Len(fm[1].shown) :
            LET r == fm[1].shown[k] IN
            /\ r.idx \in 1 .. Len(x_test)
            /\ r.x = x_test[r.idx]
            /\ r.y = Argmax(y_test[r.idx])
            /\ r.y_pred = Forward(weights[fm[1].model], x_test[r.idx])
            /\ Argmax(r.y_pred) # r.y

C6_Witness ==
    /\ fm # <<>>
    /\ Len(fm[1].shown) >= 1
    /\ \E i \in 1 .. Len(x_test) : Correct(weights[fm[1].model], i)

\* C7: with a limit n >= 0 and m misclassified test examples,
\* find_misclassifications shows exactly the first min(n, m) of them in
\* ascending dataset order, none skipped or repeated, never more than n.
C7_FirstMisclassified ==
    fm # <<>> /\ fm[1].n >= 0 =>
        LET mis == Misclassified(weights[fm[1].model])
            shown == fm[1].shown
        IN /\ Len(shown) = Min(fm[1].n, Cardinality(mis))
           /\ Len(shown) <= fm[1].n
           /\ \A k \in 1 .. Len(shown) :
                 /\ shown[k].idx \in mis
                 /\ Cardinality({j \in mis : j < shown[k].idx}) = k - 1

C7_Witness ==
    /\ fm # <<>>
    /\ fm[1].n >= 1
    /\ Len(fm[1].shown) = fm[1].n
    /\ Cardinality(Misclassified(weights[fm[1].model])) > fm[1].n
    /\ 1 \notin Misclassified(weights[fm[1].model])

\* C8: with a limit n <= 0 find_misclassifications shows nothing, whatever
\* the test set and however many examples are misclassified.
C8_EmptyOnNonPositive ==
    fm # <<>> /\ fm[1].n <= 0 => fm[1].shown = <<>>

C8_Witness ==
    /\ fm # <<>>
    /\ fm[1].n < 0
    /\ fm[1].shown = <<>>
    /\ Cardinality(Misclassified(weights[fm[1].model])) >= 2

\* C9: the accuracy evaluate_model returns is the number of correctly
\* classified test examples over the number of test examples, also when the
\* last batch is smaller than the others.
C9_WeightedAccuracy ==
    \A m \in Models :
        eval_ret[m] # <<>> =>
            LET acc == eval_ret[m][1].accuracy
                hits == Cardinality({i \in 1 .. Len(x_test) : Correct(weights[m], i)})
            IN /\ acc[2] > 0
               /\ acc[1] * Len(x_test) = hits * acc[2]

C9_Witness ==
    \E m \in Models :
        /\ eval_ret[m] # <<>>
        /\ Len(x_test) > EvalBatch
        /\ Len(x_test) % EvalBatch # 0
        /\ \A i \in 1 .. EvalBatch : Correct(weights[m], i)
        /\ ~Correct(weights[m], Len(x_test))

\* a step that replaces a model's current evaluate_model result replaces it
\* by an equal one
C10_Step ==
    \A m \in Models :
        eval_ret[m] # <<>> /\ eval_ret'[m] # <<>> =>
            /\ SameFraction(eval_ret'[m][1].loss, eval_ret[m][1].loss)
            /\ SameFraction(eval_ret'[m][1].accuracy, eval_ret[m][1].accuracy)

\* C10: a second evaluate_model call on a model that was not trained since
\* the first returns the same loss and the same accuracy.
C10_Idempotent == [][C10_Step]_vars

C10_Witness == \E m \in Models : eval_ret[m] # <<>> /\ eval_ret[m][1].again

(***************************************************************************)
(* load_data and the data train_model is given                             *)
(***************************************************************************)
\* v is the one-hot vector of width 10 of digit d
IsOneHotTen(v, d) ==
    /\ DOMAIN v = 0 .. 9
    /\ v[d] = 1
    /\ \A c \in (0 .. 9) \ {d} : v[c] = 0

\* C11: every label vector load_data produces, of the training and of the
\* test split, has exactly 10 entries, a 1 at the index of its class and 0
\* elsewhere, whatever labels in 0..9 the provider returned.
C11_OneHotWidthTen ==
    pc # "start" =>
        /\ Len(y_train) = Len(mnist.y_train)
        /\ Len(y_test) = Len(mnist.y_test)
        /\ \A i \in 1 .. Len(y_train) : IsOneHotTen(y_train[i], mnist.y_train[i])
        /\ \A i \in 1 .. Len(y_test) : IsOneHotTen(y_test[i], mnist.y_test[i])

\* the loaded data does not fit model m: the images do not conform to its
\* input, or a label row is not of the width of its output
Mismatch(m) ==
    \/ ~Conforms(mnist.shape, InputShape[m])
    \/ \E i \in 1 .. Len(y_train) : DOMAIN y_train[i] # 0 .. 9

\* on mismatching data no model is ever fitted: no epoch, no history record,
\* the parameters as compiled
C12_NothingRuns ==
    /\ \A m \in Models : pc # "start" /\ Mismatch(m) =>
            /\ weights[m] = 0
            /\ fit_model # m
    /\ error = "ValueError" =>
            /\ pc = "idle"
            /\ \E m \in Models : ~CanFit(m)

\* the failing call leaves parameters, history and epoch count as they are,
\* and no fit starts on mismatching data
C12_Step ==
    /\ error' = "ValueError" =>
            /\ weights' = weights
            /\ history' = history
            /\ epoch' = epoch
            /\ pc' = "idle"
    /\ pc' = "fit" => ~Mismatch(fit_model')

\* C12: on data whose image or label shape does not fit the model,
\* train_model raises at once: no epoch runs, no history record is made, the
\* parameters stay as they were, and nothing is tried again.
C12_FailsImmediately == []C12_NothingRuns /\ [][C12_Step]_vars

C12_Witness ==
    /\ error = "ValueError"
    /\ Conforms(mnist.shape, InputShape["hp_cnn"])
    /\ Len(x_train) = 2
    /\ LabelWidth(y_train) = 9
    /\ history = EmptyHistory /\ epoch = 0 /\ weights["hp_cnn"] = 0

\* the union of the mini-batches bs
Used(bs) == UNION {bs[k] : k \in 1 .. Len(bs)}

\* the split of a fit and the mini-batches of its last epoch
C13_Partition ==
    fit_model # "none" =>
        LET n == Len(x_train) IN
        /\ split.train \cap split.val = {}
        /\ split.train \cup split.val = 1 .. n
        /\ 10 * Cardinality(split.val) >= n
        /\ 10 * (Cardinality(split.val) - 1) < n
        /\ 60000 - SplitAt(60000) = 6000
        /\ epoch = 0 => batches = <<>>
        /\ epoch >= 1 =>
              /\ Used(batches) = split.train
              /\ Used(batches) \cap split.val = {}
              /\ \A k \in 1 .. Len(batches) :
                    /\ batches[k] # {}
                    /\ Cardinality(batches[k]) <= FitBatch
                    /\ \A j \in 1 .. (k - 1) : batches[j] \cap batches[k] = {}

\* the epochs of one fit all see the same two parts
C13_Step == pc = "fit" /\ pc' = "fit" => split' = split

\* C13: in every epoch the training data is cut into a validation part of
\* 10% and a training part of 90%, disjoint, covering the training set, the
\* same in every epoch; each epoch's shuffled mini-batches hold at most
\* batch_size examples, use every example of the training part exactly once
\* and never a validation example.
C13_ValidationSplit == []C13_Partition /\ [][C13_Step]_vars

C13_Witness ==
    /\ pc = "fit" /\ epoch >= 2
    /\ Len(x_train) = TrainSize
    /\ Cardinality(split.val) >= 1
    /\ Len(batches) >= 2
    /\ Cardinality(batches[Len(batches)]) < FitBatch
    /\ batches[1] # 1 .. FitBatch

(***************************************************************************)
(* The early-stopping check as a whole                                     *)
(***************************************************************************)
\* the smallest of the first k values of vl
PrefixMin(vl, k) == SeqMin(SubSeq(vl, 1, k))

\* every value of vl is its first
Constant(vl) == \A k \in 1 .. Len(vl) : vl[k] = vl[1]

\* an epoch that only ties the best loss so far counts as a strike, and a
\* run of one constant loss is stopped by its epoch 1 + patience
C14_Ties ==
    LET vl == history.val_loss
        n == Len(history.val_loss)
    IN /\ n >= 2 /\ vl[n] = PrefixMin(vl, n - 1) =>
              /\ es.wait >= 1
              /\ es.best = vl[n]
       /\ n >= 1 /\ Constant(vl) =>
              /\ es.wait = n - 1
              /\ n <= 1 + patience
              /\ stop_training <=> n = 1 + patience

\* the epoch that ties the best loss adds one strike and keeps the best
C14_Step ==
    LET vl == history.val_loss
        wl == history'.val_loss
    IN pc = "fit" /\ Len(vl) >= 1 /\ Len(wl) = Len(vl) + 1 /\ wl[Len(wl)] = es.best =>
           /\ es'.wait = es.wait + 1
           /\ es'.best = es.best

Improving == ~stop_training /\ es.wait = 0
Waiting == ~stop_training /\ es.wait \in 1 .. patience
Stopped == stop_training

\* exactly one of the three states holds, each is what the history says it
\* is, and the tracked best is the smallest validation loss so far
C15_States ==
    LET vl == history.val_loss
        n == Len(history.val_loss)
    IN /\ Cardinality({st \in {"IMPROVING", "WAITING", "STOPPED"} :
                            \/ st = "IMPROVING" /\ Improving
                            \/ st = "WAITING" /\ Waiting
                            \/ st = "STOPPED" /\ Stopped}) = 1
       /\ Improving <=> (n = 0 \/ NewMin(vl, n))
       /\ Waiting => es.wait = Strikes(vl, n)
       /\ Stopped => es.wait = patience /\ n = es.stopped_epoch + 1
       /\ n = 0 => es.best = Inf
       /\ n >= 1 => es.best = SeqMin(vl)

\* once STOPPED, the call runs no epoch, appends no record and updates no
\* parameter; only the next call leaves the state
C15_Step ==
    stop_training =>
        \/ pc = "idle" /\ pc' = "fit"
        \/ /\ stop_training'
           /\ epoch' = epoch
           /\ history' = history
           /\ weights' = weights
           /\ es' = es

\* C15: the early-stopping check is always in exactly one of IMPROVING
\* (strike count 0), WAITING(k) with 1 <= k <= patience, and STOPPED; its best
\* value is the minimum validation loss of the history so far; STOPPED is
\* terminal for the call.
C15_StateMachine == []C15_States /\ [][C15_Step]_vars

C15_Witness ==
    /\ Returned /\ Stopped
    /\ plan.script = SeqB
    /\ es.best = 70 /\ es.wait = patience

\* the dataset arrays stay as they are, and parameters change only inside a
\* fit, and there only those of the fitted model
C16_Step ==
    /\ x_train' = x_train /\ y_train' = y_train
    /\ x_test' = x_test /\ y_test' = y_test
    /\ weights' # weights =>
            /\ pc = "fit" /\ pc' = "fit"
            /\ \A m \in Models \ {fit_model} : weights'[m] = weights[m]
    /\ pc = "idle" /\ pc' = "idle" => weights' = weights

\* C16: only train_model changes a model's parameters; evaluate_model and
\* find_misclassifications leave them as they are, and none of the three
\* changes x_train, y_train, x_test or y_test.
C16_Frame == [][C16_Step]_vars

C16_Witness ==
    /\ Returned
    /\ weights["hp_cnn"] # 0
    /\ eval_ret["hp_cnn"] # <<>> /\ eval_ret["hp_cnn"][1].again
    /\ fm # <<>> /\ fm[1].model = "hp_cnn"

StopEpoch(vl) ==
    IF \E k \in 1 .. Len(vl) : ThreeStrikes(vl, k)
    THEN CHOOSE k \in 1 .. Len(vl) :
             ThreeStrikes(vl, k) /\ \A j \in 1 .. (k - 1) : ~ThreeStrikes(vl, j)
    ELSE 0

\* where a call stands is decided by its own validation losses
C19_OwnLosses ==
    LET vl == history.val_loss
        n == Len(history.val_loss)
    IN /\ stop_training <=> (n >= 1 /\ StopEpoch(vl) = n)
       /\ ~stop_training => StopEpoch(vl) = 0
       /\ n >= 1 => es.best = PrefixMin(vl, n)

\* a call begins with a fresh check and with the parameters as they are
C19_Step ==
    pc = "idle" /\ pc' = "fit" =>
        /\ es'.wait = 0
        /\ es'.best = Inf
        /\ ~stop_training'
        /\ epoch' = 0
        /\ history' = EmptyHistory
        /\ weights' = weights

\* C19: every train_model call starts with fresh early-stopping state, so
\* its stopping epoch is decided by its own validation losses alone, whatever
\* best loss or strike count earlier calls ended with, while the parameters
\* an earlier call left are where the next call starts.
C19_FreshPerCall == []C19_OwnLosses /\ [][C19_Step]_vars

C19_Witness ==
    /\ Returned /\ stop_training
    /\ history.val_loss = SeqA
    /\ weights[fit_model] # Len(SeqA) % NumWeights
    /\ \E m \in Models \ {fit_model} : weights[m] # 0

(***************************************************************************)
(* visualize_mnist                                                         *)
(***************************************************************************)
\* the position in the training split of the k-th image of digit d
NthOfDigit(d, k) == Masked(mnist.y_train, d)[k]

\* the grid a call with n rows is to draw
GridOfFirstImages(f) ==
    /\ f.error = "none"
    /\ Len(f.plots) = 10 * f.n
    /\ \A k \in 1 .. Len(f.plots) : f.plots[k].index \in 1 .. (10 * f.n)
    /\ \A idx \in 1 .. (10 * f.n) :
          Cardinality({k \in 1 .. Len(f.plots) : f.plots[k].index = idx}) = 1
    /\ \A i \in 0 .. 9, j \in 0 .. (f.n - 1) :
          \E k \in 1 .. Len(f.plots) :
              /\ f.plots[k].index = i + 10 * j + 1
              /\ f.plots[k].digit = i
              /\ f.plots[k].image = NthOfDigit(i, j + 1)

\* C17: for every n > 0 visualize_mnist(n) draws, for each digit 0..9, the
\* first n training images of that digit: 10*n subplots in a grid of n rows
\* and 10 columns, every index i+10*j+1 within 1..10*n and each index of that
\* range used exactly once; for n <= 0 the assertion fails and nothing is
\* drawn.
C17_GridPerDigit ==
    figure # NoFigure =>
        /\ figure[1].n > 0 => GridOfFirstImages(figure[1])
        /\ figure[1].n <= 0 =>
              figure[1].error = "AssertionError" /\ figure[1].plots = <<>>

====
